---- MODULE Spec2Model ----
(***************************************************************************)
(* Pezeshk, Zandieh and Tavakoli (2011) ground motion model of pygmm.      *)
(*                                                                         *)
(* Numbers.  The program computes in floating point; the model keeps       *)
(*   mag, dist_rup, c11        in tenths          (mag 7.0 is 70)          *)
(*   c1..c9, log10 and ln      in thousandths                              *)
(*   c10                       in millionths                               *)
(*   c12, c13, c14, sigma_reg  in ten-thousandths                          *)
(* and rounds every quotient down.  A distance is kept exactly, as the     *)
(* fraction <<n, d>> equal to its SQUARE in km^2, and a logarithm of a     *)
(* distance is kept exactly as [log10 |-> that fraction], so that the      *)
(* comparisons made by np.minimum and np.maximum are exact.  A logarithm   *)
(* becomes a floating point number (NumLog) when it is multiplied by a     *)
(* coefficient.  A floating point number is [k |-> kind, v |-> value],     *)
(* kind being "fin", "pinf", "ninf" or "nan".                              *)
(***************************************************************************)
EXTENDS Integers, Sequences, FiniteSets, TLC

VARIABLES COEFF, pc, kwds, err, params, ln_resp, ln_std, calls, frame, lastRead

vars == <<COEFF, pc, kwds, err, params, ln_resp, ln_std, calls, frame, lastRead>>

(***************************************************************************)
(* Bounds of the model.                                                    *)
(***************************************************************************)
NumInstances == 2

Instances == 1..NumInstances

\* The arguments <<mag, dist_rup>> the callers pass, in tenths: a magnitude
\* of 4.9, 5, 6, 7, 8 or 8.1 with a distance of -5, 2, 67.2, 134.4, 1000 or
\* 1000.1 km.
Inputs ==
    {<<49, 672>>, <<81, 672>>, <<70, 10001>>, <<50, 10000>>, <<80, 10000>>,
     <<70, 672>>, <<80, 1344>>, <<70, -50>>, <<60, 20>>}

Kwds == {[mag |-> a[1], dist_rup |-> a[2]] : a \in Inputs}

(***************************************************************************)
(* Optional values: an attribute that is not set is None.                  *)
(***************************************************************************)
None == {}
Some(x) == {x}
The(s) == CHOOSE x \in s : TRUE

(***************************************************************************)
(* Integer helpers.                                                        *)
(***************************************************************************)
RECURSIVE GCD(_, _)
GCD(a, b) == IF b = 0 THEN a ELSE GCD(b, a % b)

RECURSIVE Pow2(_)
Pow2(n) == IF n = 0 THEN 1 ELSE 2 * Pow2(n - 1)

RECURSIVE SqrtSearch(_, _, _)
SqrtSearch(n, lo, hi) ==
    IF lo >= hi THEN lo
    ELSE LET mid == (lo + hi + 1) \div 2
         IN  IF mid * mid <= n THEN SqrtSearch(n, mid, hi)
                               ELSE SqrtSearch(n, lo, mid - 1)

\* floor of the square root of a natural number
ISqrt(n) == SqrtSearch(n, 0, 46340)

(***************************************************************************)
(* Floating point numbers with the non-finite values of IEEE 754.          *)
(***************************************************************************)
Fin(v) == [k |-> "fin", v |-> v]
PInf == [k |-> "pinf", v |-> 0]
NInf == [k |-> "ninf", v |-> 0]
NaN == [k |-> "nan", v |-> 0]

IsFinite(x) == x.k = "fin"

FNeg(x) == IF x.k = "fin" THEN Fin(0 - x.v)
           ELSE IF x.k = "pinf" THEN NInf
           ELSE IF x.k = "ninf" THEN PInf
           ELSE NaN

\* x + y
FAdd(x, y) ==
    IF x.k = "nan" \/ y.k = "nan" THEN NaN
    ELSE IF x.k = "fin" /\ y.k = "fin" THEN Fin(x.v + y.v)
    ELSE IF x.k = "fin" THEN y
    ELSE IF y.k = "fin" THEN x
    ELSE IF x.k = y.k THEN x
    ELSE NaN

\* c * x, c a finite number in thousandths
FScale(c, x) ==
    IF x.k = "nan" THEN NaN
    ELSE IF x.k = "fin" THEN Fin((c * x.v) \div 1000)
    ELSE IF c = 0 THEN NaN
    ELSE IF c > 0 THEN x
    ELSE FNeg(x)

(***************************************************************************)
(* Exact fractions <<n, d>>, d > 0, in lowest terms.                       *)
(***************************************************************************)
Frac(n, d) == LET g == GCD(n, d) IN <<n \div g, d \div g>>

FracLE(a, b) == a[1] * b[2] <= b[1] * a[2]

\* a * b, cancelling before multiplying
FracMul(a, b) ==
    LET g1 == GCD(a[1], b[2])
        g2 == GCD(b[1], a[2])
    IN  IF a[1] = 0 \/ b[1] = 0 THEN <<0, 1>>
        ELSE <<(a[1] \div g1) * (b[1] \div g2), (a[2] \div g2) * (b[2] \div g1)>>

(***************************************************************************)
(* Distances: a distance x >= 0 is the fraction x^2; NaNDist is the        *)
(* floating point nan.                                                     *)
(***************************************************************************)
NaNDist == <<-1, 1>>

IsNaNDist(x) == x[1] < 0

\* The distance x km, x a natural number
Km(x) == <<x * x, 1>>

\* np.sqrt(n / d) for integers n and d > 0: nan when n < 0
Sqrt(n, d) == IF n < 0 THEN NaNDist ELSE Frac(n, d)

\* x / y for two distances, y > 0
DistDiv(x, y) == IF IsNaNDist(x) THEN NaNDist ELSE FracMul(x, <<y[2], y[1]>>)

\* x <= y and x < y for two distances
DistLE(x, y) == ~IsNaNDist(x) /\ ~IsNaNDist(y) /\ FracLE(x, y)
DistLT(x, y) == ~IsNaNDist(x) /\ ~IsNaNDist(y) /\ ~FracLE(y, x)

(***************************************************************************)
(* Logarithms.                                                             *)
(***************************************************************************)
\* np.log10 of a distance, kept exactly
Log10(x) == [log10 |-> x]

\* the float 0. as a logarithm
LogZero == Log10(Km(1))

IsNaNLog(u) == IsNaNDist(u.log10)

LogLE(u, v) == FracLE(u.log10, v.log10)

\* np.minimum and np.maximum; both propagate nan
Minimum(u, v) ==
    IF IsNaNLog(u) \/ IsNaNLog(v) THEN Log10(NaNDist)
    ELSE IF LogLE(u, v) THEN u ELSE v
Maximum(u, v) ==
    IF IsNaNLog(u) \/ IsNaNLog(v) THEN Log10(NaNDist)
    ELSE IF LogLE(u, v) THEN v ELSE u

\* u + v: log10 x + log10 y = log10 (x y)
LogAdd(u, v) ==
    IF IsNaNLog(u) \/ IsNaNLog(v) THEN Log10(NaNDist)
    ELSE Log10(FracMul(u.log10, v.log10))

RECURSIVE FloorLog2(_)
FloorLog2(n) == IF n < 2 THEN 0 ELSE 1 + FloorLog2(n \div 2)

\* The first b binary places of log2 (y / 2^14), 2^14 <= y < 2^15, by
\* repeated squaring.
RECURSIVE FracBits(_, _)
FracBits(y, b) ==
    IF b = 0 THEN 0
    ELSE LET s == (y * y) \div 16384
         IN  IF s >= 32768 THEN Pow2(b - 1) + FracBits(s \div 2, b - 1)
                           ELSE FracBits(s, b - 1)

\* log2 n in 1/1024, n >= 1
Log2Fx(n) ==
    LET e == FloorLog2(n)
        y == IF e <= 14 THEN n * Pow2(14 - e) ELSE n \div Pow2(e - 14)
    IN  e * 1024 + FracBits(y, 10)

\* log10 n in thousandths, n >= 1
Log10Milli(n) == (Log2Fx(n) * 30103) \div 102400

\* The floating point value of a logarithm, in thousandths; log10 0 = -inf
NumLog(u) ==
    IF IsNaNLog(u) THEN NaN
    ELSE IF u.log10[1] = 0 THEN NInf
    ELSE Fin((Log10Milli(u.log10[1]) - Log10Milli(u.log10[2])) \div 2)

(***************************************************************************)
(* Class attributes.                                                       *)
(***************************************************************************)
INDEX_PGA == 0
INDICES_PSA == 1..22

\* The rows of the coefficient file: one for PGA and one per spectral period
Rows == {INDEX_PGA} \cup INDICES_PSA

\* Row i of pezeshk_zandieh_tavakoli_2011.csv, with values that stand in
\* for the published coefficients.  Row 4 and row 9 have a c11 that puts
\* the arguments 67.2 km and 134.4 km at the effective distances 70 km and
\* 140 km.
CoeffRow(i) ==
    [period    |-> IF i = 0 THEN 0 ELSE 10 * i * i,
     c1        |-> 1537 - 100 * i,
     c2        |-> 230 + 20 * i,
     c3        |-> -38 - 2 * i,
     c4        |-> -3800 + 50 * i,
     c5        |-> 350 - 5 * i,
     c6        |-> 341 + 30 * i,
     c7        |-> -90 - 2 * i,
     c8        |-> -2500 + 40 * i,
     c9        |-> 180 + 3 * i,
     c10       |-> -420 + 10 * i,
     c11       |-> IF i = 4 THEN 196 ELSE IF i = 9 THEN 392 ELSE 60 + i,
     c12       |-> -203 + 5 * i,
     c13       |-> 4000 - 50 * i,
     c14       |-> 2800 + 30 * i,
     sigma_reg |-> 1500 + 20 * i]

\* model.load_data_file('pezeshk_zandieh_tavakoli_2011.csv', 1)
load_data_file == [i \in Rows |-> CoeffRow(i)]

PERIODS(c) == [i \in DOMAIN c |-> c[i].period]

\* PARAMS with the bounds of mag mistyped as 4 and 9
PARAMS_wide ==
    <<[name |-> "mag", required |-> TRUE, min |-> Some(40), max |-> Some(90)],
      [name |-> "dist_rup", required |-> TRUE, min |-> None, max |-> Some(10000)]>>

\* NumericParameter(name, required, min, max); mag and dist_rup in tenths
PARAMS ==
    <<[name |-> "mag", required |-> TRUE, min |-> Some(50), max |-> Some(80)],
      [name |-> "dist_rup", required |-> TRUE, min |-> None, max |-> Some(10000)]>>

(***************************************************************************)
(* The base class: the check of the arguments against PARAMS.              *)
(***************************************************************************)
\* NumericParameter.check: the value violates a declared bound
OutOfRange(param, value) ==
    \/ param.min # None /\ value < The(param.min)
    \/ param.max # None /\ value > The(param.max)

\* Model._check_inputs: the error raised for the arguments, or "" for none
check_inputs(kw) ==
    IF \E n \in DOMAIN PARAMS : OutOfRange(PARAMS[n], kw[PARAMS[n].name])
    THEN "ParameterOutOfRange"
    ELSE ""

(***************************************************************************)
(* _calc_ln_resp, for one row c of the coefficients.                       *)
(***************************************************************************)
\* EffDist with the squares subtracted
EffDist_minus(p, c) == Sqrt(p.dist_rup * p.dist_rup - c.c11 * c.c11, 100)

\* np.sqrt(p['dist_rup'] ** 2 + c['c11'] ** 2), as the square in km^2
EffDist(p, c) == Sqrt(p.dist_rup * p.dist_rup + c.c11 * c.c11, 100)

\* c['c10'] * dist, in thousandths: the distance rounded down to tenths
AnelasticTerm(c, dist) ==
    IF IsNaNDist(dist) THEN NaN
    ELSE Fin((c.c10 * ISqrt(dist[1] * (100 \div dist[2]))) \div 10000)

\* np.minimum(np.log10(dist), np.log10(70.))
NearFactor(dist) == Minimum(Log10(dist), Log10(Km(70)))

\* MidFactor starting at 60 km
MidFactor_60(dist) ==
    Maximum(Minimum(Log10(DistDiv(dist, Km(60))),
                    Log10(DistDiv(Km(140), Km(70)))),
            LogZero)

\* MidFactor without the np.minimum
MidFactor_unclamped(dist) == Maximum(Log10(DistDiv(dist, Km(70))), LogZero)

\* np.maximum(np.minimum(np.log10(dist / 70.), np.log10(140. / 70.)), 0.)
MidFactor(dist) ==
    Maximum(Minimum(Log10(DistDiv(dist, Km(70))),
                    Log10(DistDiv(Km(140), Km(70)))),
            LogZero)

\* FarFactor starting at 70 km
FarFactor_70(dist) == Maximum(Log10(DistDiv(dist, Km(70))), LogZero)

\* np.maximum(np.log10(dist / 140.), 0)
FarFactor(dist) == Maximum(Log10(DistDiv(dist, Km(140))), LogZero)

\* (c['c6'] + c['c7'] * p['mag']) * the mid-field factor
MidTerm(p, c, mid) == FScale(c.c6 + (c.c7 * p.mag) \div 10, NumLog(mid))

\* (c['c8'] + c['c9'] * p['mag']) * the far-field factor
FarTerm(p, c, far) == FScale(c.c8 + (c.c9 * p.mag) \div 10, NumLog(far))

\* The locals of _calc_ln_resp for one row: the effective distance, the
\* three clamped logarithms and the mid-field and far-field terms
RespFrame(p, c) ==
    LET dist == EffDist(p, c)
        mid == MidFactor(dist)
        far == FarFactor(dist)
    IN  [dist     |-> dist,
         near     |-> NearFactor(dist),
         mid      |-> mid,
         far      |-> far,
         mid_term |-> MidTerm(p, c, mid),
         far_term |-> FarTerm(p, c, far)]

\* log10_resp for one row with the locals f, in thousandths
Log10Resp(p, c, f) ==
    FAdd(FAdd(FAdd(FAdd(
            Fin(c.c1 + (c.c2 * p.mag) \div 10 + (c.c3 * p.mag * p.mag) \div 100),
            FScale(c.c4 + (c.c5 * p.mag) \div 10, NumLog(f.near))),
            f.mid_term),
            f.far_term),
            AnelasticTerm(c, f.dist))

\* np.power(10, x): 10^x overflows to inf above 10^308.25 and underflows to
\* 0 below 10^-323.3
Power10(x) ==
    IF x.k = "nan" THEN [k |-> "nan", e |-> 0]
    ELSE IF x.k = "pinf" \/ (x.k = "fin" /\ x.v > 308254) THEN [k |-> "pinf", e |-> 0]
    ELSE IF x.k = "ninf" \/ (x.k = "fin" /\ x.v < -323306) THEN [k |-> "zero", e |-> 0]
    ELSE [k |-> "pow10", e |-> x.v]

\* np.log(y): ln(10^e) = e ln 10, ln 0 = -inf
Log(y) ==
    IF y.k = "nan" THEN NaN
    ELSE IF y.k = "pinf" THEN PInf
    ELSE IF y.k = "zero" THEN NInf
    ELSE Fin((y.e * 2303) \div 1000)

\* The locals of _calc_ln_resp, row by row
FrameOf(p, c) == [i \in DOMAIN c |-> RespFrame(p, c[i])]

\* ln_resp = np.log(np.power(10, log10_resp)), row by row
LnRespOf(p, c) ==
    [i \in DOMAIN c |-> Log(Power10(Log10Resp(p, c[i], RespFrame(p, c[i]))))]

\* _calc_ln_resp is a function of self.params and COEFF alone: its locals
\* and its result, tabulated for the coefficient table and the arguments
\* that pass the check
RespTable ==
    [c \in {load_data_file} |->
        [p \in {kw \in Kwds : check_inputs(kw) = ""} |->
            [frame |-> FrameOf(p, c), ln_resp |-> LnRespOf(p, c)]]]

LnRespTable == [c \in DOMAIN RespTable |-> [p \in DOMAIN RespTable[c] |-> RespTable[c][p].ln_resp]]

calc_frame(p, c) == RespTable[c][p].frame

calc_ln_resp(p, c) == LnRespTable[c][p]

(***************************************************************************)
(* _calc_ln_std, for one row c of the coefficients; ten-thousandths.       *)
(***************************************************************************)
\* LnStdMean branching on mag < 7
LnStdMean_strict(p, c) ==
    IF p.mag < 70
    THEN (c.c12 * p.mag) \div 10 + c.c13
    ELSE (-695 * p.mag) \div 100 + c.c14

LnStdMean(p, c) ==
    IF p.mag <= 70
    THEN (c.c12 * p.mag) \div 10 + c.c13
    ELSE (-695 * p.mag) \div 100 + c.c14

LnStd(p, c) ==
    LET m == LnStdMean(p, c)
    IN  ISqrt(m * m + c.sigma_reg * c.sigma_reg)

LnStdOf(p, c) == [i \in DOMAIN c |-> LnStd(p, c[i])]

\* _calc_ln_std is a function of self.params and COEFF alone: its result,
\* tabulated like RespTable
StdTable ==
    [c \in {load_data_file} |->
        [p \in {kw \in Kwds : check_inputs(kw) = ""} |-> LnStdOf(p, c)]]

calc_ln_std(p, c) == StdTable[c][p]

(***************************************************************************)
(* The state machine: callers construct instances and read them.           *)
(***************************************************************************)
Init ==
    /\ COEFF = load_data_file
    /\ pc = [i \in Instances |-> "idle"]
    /\ kwds = [i \in Instances |-> None]
    /\ err = [i \in Instances |-> ""]
    /\ params = [i \in Instances |-> None]
    /\ ln_resp = [i \in Instances |-> None]
    /\ ln_std = [i \in Instances |-> None]
    /\ calls = [i \in Instances |-> [resp |-> 0, std |-> 0]]
    /\ frame = [i \in Instances |-> None]
    /\ lastRead = None

\* __init__, line 49: super().__init__(**kwds) checks the arguments and
\* binds them to the instance, or raises
init_super(i, kw) ==
    LET e == check_inputs(kw)
    IN  /\ pc[i] = "idle"
        /\ \A j \in Instances : j < i => pc[j] # "idle"
        /\ kwds' = [kwds EXCEPT ![i] = Some(kw)]
        /\ err' = [err EXCEPT ![i] = e]
        /\ params' = [params EXCEPT ![i] = IF e = "" THEN Some(kw) ELSE None]
        /\ pc' = [pc EXCEPT ![i] = IF e = "" THEN "checked" ELSE "raised"]
        /\ UNCHANGED <<COEFF, ln_resp, ln_std, calls, frame, lastRead>>

\* init_ln_resp running although the check raised
init_ln_resp_unchecked(i) ==
    /\ pc[i] \in {"checked", "raised"}
    /\ ln_resp' = [ln_resp EXCEPT ![i] = Some(LnRespOf(The(kwds[i]), COEFF))]
    /\ frame' = [frame EXCEPT ![i] = Some(FrameOf(The(kwds[i]), COEFF))]
    /\ calls' = [calls EXCEPT ![i].resp = @ + 1]
    /\ pc' = [pc EXCEPT ![i] = IF @ = "checked" THEN "resp" ELSE "raised"]
    /\ UNCHANGED <<COEFF, kwds, err, params, ln_std, lastRead>>

\* init_ln_resp reading the parameters of the instance checked last
init_ln_resp_shared(i) ==
    LET j == CHOOSE j \in Instances :
                 /\ params[j] # None
                 /\ \A k \in Instances : params[k] # None => k <= j
    IN  /\ pc[i] = "checked"
        /\ ln_resp' = [ln_resp EXCEPT ![i] = Some(calc_ln_resp(The(params[j]), COEFF))]
        /\ frame' = [frame EXCEPT ![i] = Some(calc_frame(The(params[j]), COEFF))]
        /\ calls' = [calls EXCEPT ![i].resp = @ + 1]
        /\ pc' = [pc EXCEPT ![i] = "resp"]
        /\ UNCHANGED <<COEFF, kwds, err, params, ln_std, lastRead>>

\* __init__, line 50: self._ln_resp = self._calc_ln_resp()
init_ln_resp(i) ==
    /\ pc[i] = "checked"
    /\ ln_resp' = [ln_resp EXCEPT ![i] = Some(calc_ln_resp(The(params[i]), COEFF))]
    /\ frame' = [frame EXCEPT ![i] = Some(calc_frame(The(params[i]), COEFF))]
    /\ calls' = [calls EXCEPT ![i].resp = @ + 1]
    /\ pc' = [pc EXCEPT ![i] = "resp"]
    /\ UNCHANGED <<COEFF, kwds, err, params, ln_std, lastRead>>

\* init_ln_std running again on a constructed instance
init_ln_std_again(i) ==
    /\ pc[i] \in {"resp", "done"}
    /\ ln_std' = [ln_std EXCEPT ![i] = Some(calc_ln_std(The(params[i]), COEFF))]
    /\ calls' = [calls EXCEPT ![i].std = @ + 1]
    /\ pc' = [pc EXCEPT ![i] = "done"]
    /\ UNCHANGED <<COEFF, kwds, err, params, ln_resp, frame, lastRead>>

\* __init__, line 51: self._ln_std = self._calc_ln_std(), and return
init_ln_std(i) ==
    /\ pc[i] = "resp"
    /\ ln_std' = [ln_std EXCEPT ![i] = Some(calc_ln_std(The(params[i]), COEFF))]
    /\ calls' = [calls EXCEPT ![i].std = @ + 1]
    /\ pc' = [pc EXCEPT ![i] = "done"]
    /\ UNCHANGED <<COEFF, kwds, err, params, ln_resp, frame, lastRead>>

\* A caller reads the cached mean, the cached standard deviation or the
\* periods of a constructed instance
Read(i, attr) ==
    /\ pc[i] = "done"
    /\ lastRead' = Some([inst |-> i, attr |-> attr,
                         value |-> IF attr = "ln_resp" THEN The(ln_resp[i])
                                   ELSE IF attr = "ln_std" THEN The(ln_std[i])
                                   ELSE PERIODS(COEFF)])
    /\ UNCHANGED <<COEFF, pc, kwds, err, params, ln_resp, ln_std, calls, frame>>

Next ==
    \/ \E i \in Instances, kw \in Kwds : init_super(i, kw)
    \/ \E i \in Instances : init_ln_resp(i)
    \/ \E i \in Instances : init_ln_std(i)
    \/ \E i \in Instances, attr \in {"ln_resp", "ln_std", "periods"} : Read(i, attr)

Spec == Init /\ [][Next]_vars

(***************************************************************************)
(* Properties.                                                             *)
(***************************************************************************)
Constructed(i) == pc[i] = "done"

\* C1: arguments with mag below 5 or above 8, or dist_rup above 1000, make
\* the construction raise ParameterOutOfRange and bind no parameters; mag
\* from 5 to 8 with dist_rup from 0 to 1000, bounds included, is accepted;
\* and parameters that are bound are the arguments, never a clamped value.
C1_OutOfRangeRejected ==
    \A i \in Instances :
        kwds[i] # None =>
            LET kw == The(kwds[i])
            IN  /\ (kw.mag < 50 \/ kw.mag > 80 \/ kw.dist_rup > 10000)
                       => /\ pc[i] = "raised"
                          /\ err[i] = "ParameterOutOfRange"
                          /\ params[i] = None
                /\ (kw.mag >= 50 /\ kw.mag <= 80 /\ kw.dist_rup >= 0 /\ kw.dist_rup <= 10000)
                       => /\ pc[i] # "raised"
                          /\ err[i] = ""
                          /\ params[i] = Some(kw)
                /\ params[i] # None => params[i] = kwds[i]

\* C1 happens: mag 8.1 was rejected and mag 8 with dist_rup 1000 accepted.
C1_Witness ==
    \E i, j \in Instances :
        /\ kwds[i] = Some([mag |-> 81, dist_rup |-> 672]) /\ pc[i] = "raised"
        /\ kwds[j] = Some([mag |-> 80, dist_rup |-> 10000]) /\ Constructed(j)

\* C2: a negative dist_rup with mag from 5 to 8 makes the construction raise
\* ParameterOutOfRange, so that no instance is produced.
C2_NegativeDistRejected ==
    \A i \in Instances :
        (/\ kwds[i] # None
         /\ The(kwds[i]).dist_rup < 0
         /\ The(kwds[i]).mag >= 50
         /\ The(kwds[i]).mag <= 80)
            => pc[i] = "raised" /\ err[i] = "ParameterOutOfRange"

\* C3: the check of the arguments runs before both calculations; when it
\* raises, no calculation has run and neither result is set; when the
\* construction has returned, both results are set.
C3_ValidateBeforeCompute ==
    \A i \in Instances :
        /\ pc[i] = "raised"
               => /\ ln_resp[i] = None /\ ln_std[i] = None /\ frame[i] = None
                  /\ calls[i] = [resp |-> 0, std |-> 0]
        /\ (calls[i].resp > 0 \/ calls[i].std > 0 \/ ln_resp[i] # None \/ ln_std[i] # None)
               => /\ params[i] # None
                  /\ check_inputs(The(kwds[i])) = ""
        /\ Constructed(i) => ln_resp[i] # None /\ ln_std[i] # None

\* C3 happens: one construction raised and another one returned.
C3_Witness ==
    \E i, j \in Instances :
        /\ pc[i] = "raised" /\ ln_resp[i] = None
        /\ Constructed(j) /\ calls[j] = [resp |-> 1, std |-> 1]

\* C4: for mag <= 7, 7 included, ln_std_mean is c12*mag + c13; for mag > 7
\* it is -6.95e-3*mag + c14 in every row; ln_std is the square root of
\* ln_std_mean^2 + sigma_reg^2 (rounded down to the unit of the model).
C4_StdBranchAtSeven ==
    \A i \in Instances :
        ln_std[i] # None =>
            \A r \in Rows :
                LET p == The(params[i])
                    c == COEFF[r]
                    m == IF p.mag <= 70 THEN (c.c12 * p.mag) \div 10 + c.c13
                                        ELSE (-695 * p.mag) \div 100 + c.c14
                    q == m * m + c.sigma_reg * c.sigma_reg
                    s == The(ln_std[i])[r]
                IN  s >= 0 /\ s * s <= q /\ q < (s + 1) * (s + 1)

\* C4 happens: the standard deviation was computed for mag 7 and for mag 8.
C4_Witness ==
    \E i, j \in Instances :
        /\ ln_std[i] # None /\ The(params[i]).mag = 70
        /\ ln_std[j] # None /\ The(params[j]).mag = 80

\* C5: in every row the mid-field term is 0 when dist <= 70, the far-field
\* term is 0 when dist <= 140, and the near-field factor is log10(70) when
\* dist >= 70.
C5_TermsZeroAtBreakpoints ==
    \A i \in Instances :
        frame[i] # None =>
            \A r \in Rows :
                LET f == The(frame[i])[r]
                IN  /\ DistLE(f.dist, Km(70)) => f.mid_term = Fin(0)
                    /\ DistLE(f.dist, Km(140)) => f.far_term = Fin(0)
                    /\ DistLE(Km(70), f.dist) => f.near = Log10(Km(70))

\* C5 happens: a row was evaluated at dist = 70 and a row at dist = 140.
C5_Witness ==
    \E i, j \in Instances :
        /\ frame[i] # None /\ \E r \in Rows : The(frame[i])[r].dist = Km(70)
        /\ frame[j] # None /\ \E r \in Rows : The(frame[j])[r].dist = Km(140)

\* C6 as stated: in every row the mid-field term is 0 when dist < 70 and
\* when dist > 140.
C6_MidTermZeroOutsideBand ==
    \A i \in Instances :
        frame[i] # None =>
            \A r \in Rows :
                LET f == The(frame[i])[r]
                IN  (DistLT(f.dist, Km(70)) \/ DistLT(Km(140), f.dist))
                        => f.mid_term = Fin(0)

\* C6 amended: in every row the mid-field term is 0 when dist < 70, and when
\* dist > 140 it is (c6 + c7*mag) * log10(140/70), whatever dist is.
C6_MidTermSaturates ==
    \A i \in Instances :
        frame[i] # None =>
            \A r \in Rows :
                LET f == The(frame[i])[r]
                    p == The(params[i])
                    c == COEFF[r]
                IN  /\ DistLT(f.dist, Km(70)) => f.mid_term = Fin(0)
                    /\ DistLT(Km(140), f.dist)
                           => /\ f.mid = Log10(Km(2))
                              /\ f.mid_term =
                                     FScale(c.c6 + (c.c7 * p.mag) \div 10,
                                            NumLog(Log10(Km(2))))

\* C6 happens: a row was evaluated below 70 km, and a row above 140 km where
\* the mid-field term is not 0.
C6_Witness ==
    \E i, j \in Instances :
        /\ frame[i] # None
        /\ \E r \in Rows : DistLT(The(frame[i])[r].dist, Km(70))
        /\ frame[j] # None
        /\ \E r \in Rows : /\ DistLT(Km(140), The(frame[j])[r].dist)
                           /\ The(frame[j])[r].mid_term # Fin(0)

\* C7: an instance constructed with dist_rup in (0, 1000] holds an ln_resp
\* and an ln_std of 23 elements, one per row of the coefficient table in
\* the order of the periods, index 0 being PGA, all of them finite.
C7_TwentyThreeFiniteValues ==
    \A i \in Instances :
        (Constructed(i) /\ The(params[i]).dist_rup > 0) =>
            /\ The(params[i]).mag >= 50 /\ The(params[i]).mag <= 80
            /\ The(params[i]).dist_rup <= 10000
            /\ DOMAIN The(ln_resp[i]) = DOMAIN PERIODS(COEFF)
            /\ DOMAIN The(ln_std[i]) = DOMAIN PERIODS(COEFF)
            /\ DOMAIN The(ln_resp[i]) = 0..22
            /\ Cardinality(DOMAIN The(ln_resp[i])) = 23
            /\ INDEX_PGA \in DOMAIN The(ln_resp[i])
            /\ \A r \in DOMAIN The(ln_resp[i]) :
                   /\ IsFinite(The(ln_resp[i])[r])
                   /\ The(ln_std[i])[r] \in Nat

\* C7 happens: an instance was constructed 2 km from the rupture.
C7_Witness ==
    \E i \in Instances :
        /\ Constructed(i)
        /\ The(params[i]) = [mag |-> 60, dist_rup |-> 20]
        /\ IsFinite(The(ln_resp[i])[INDEX_PGA])

\* C8: once an instance is constructed each calculation has run exactly
\* once, no step changes its results, its parameters, the number of calls
\* of its calculations or the periods, and a read returns what is stored.
C8_ResultsFrozen ==
    /\ [](\A i \in Instances : Constructed(i) => calls[i] = [resp |-> 1, std |-> 1])
    /\ [](lastRead # None =>
              LET rd == The(lastRead)
              IN  rd.value = IF rd.attr = "ln_resp" THEN The(ln_resp[rd.inst])
                             ELSE IF rd.attr = "ln_std" THEN The(ln_std[rd.inst])
                             ELSE PERIODS(COEFF))
    /\ [][\A i \in Instances :
              Constructed(i) =>
                  /\ Constructed(i)'
                  /\ ln_resp'[i] = ln_resp[i]
                  /\ ln_std'[i] = ln_std[i]
                  /\ params'[i] = params[i]
                  /\ calls'[i] = calls[i]
                  /\ PERIODS(COEFF)' = PERIODS(COEFF)]_vars

\* C8 happens: the mean of a constructed instance has been read.
C8_Witness ==
    \E i \in Instances :
        /\ Constructed(i)
        /\ lastRead # None
        /\ The(lastRead).inst = i
        /\ The(lastRead).attr = "ln_resp"

\* C9: no step writes COEFF, and an instance constructed among others holds
\* the ln_resp and ln_std of its own arguments, so that two instances with
\* the same arguments hold the same sequences.
C9_InstancesIsolated ==
    /\ [][COEFF' = COEFF]_vars
    /\ [](\A i \in Instances :
              Constructed(i) =>
                  /\ ln_resp[i] = Some(LnRespTable[COEFF][The(kwds[i])])
                  /\ ln_std[i] = Some(StdTable[COEFF][The(kwds[i])]))
    /\ [](\A i, j \in Instances :
              (Constructed(i) /\ Constructed(j) /\ kwds[i] = kwds[j])
                  => ln_resp[i] = ln_resp[j] /\ ln_std[i] = ln_std[j])

\* C9 happens: two instances with different arguments are constructed, with
\* different results.
C9_Witness ==
    \E i, j \in Instances :
        /\ Constructed(i) /\ Constructed(j)
        /\ kwds[i] # kwds[j]
        /\ ln_resp[i] # ln_resp[j]

\* C10: in every row the three clamped logarithms add up to log10(dist),
\* and in each regime two of them are constant: below 70 km the mid-field
\* and far-field factors are 0, between 70 and 140 km the near-field factor
\* is log10(70) and the far-field factor 0, above 140 km the near-field
\* factor is log10(70) and the mid-field factor log10(2).
C10_FactorsPartitionLog ==
    \A i \in Instances :
        frame[i] # None =>
            \A r \in Rows :
                LET f == The(frame[i])[r]
                IN  /\ LogAdd(LogAdd(f.near, f.mid), f.far) = Log10(f.dist)
                    /\ DistLT(f.dist, Km(70))
                           => f.mid = LogZero /\ f.far = LogZero
                    /\ (DistLT(Km(70), f.dist) /\ DistLT(f.dist, Km(140)))
                           => f.near = Log10(Km(70)) /\ f.far = LogZero
                    /\ DistLT(Km(140), f.dist)
                           => f.near = Log10(Km(70)) /\ f.mid = Log10(Km(2))

\* C10 happens: _calc_ln_resp has returned with rows in each of the three
\* regimes.
C10_Witness ==
    \E i \in Instances :
        /\ pc[i] = "resp"
        /\ \E r \in Rows : DistLT(The(frame[i])[r].dist, Km(70))
        /\ \E r \in Rows : /\ DistLT(Km(70), The(frame[i])[r].dist)
                           /\ DistLT(The(frame[i])[r].dist, Km(140))
        /\ \E j \in Instances :
               /\ pc[j] = "resp"
               /\ \E r \in Rows : DistLT(Km(140), The(frame[j])[r].dist)

====
